---- MODULE Spec2Model ----
(***************************************************************************)
(* LDAP operation handler of lldap (src/src/infra/ldap_handler.rs).        *)
(*                                                                         *)
(* A text (Rust String / &str) is a sequence of one-character strings, so  *)
(* that splitting, joining and formatting are computed character by        *)
(* character.  A DN is a sequence of <<type, value>> pairs of texts.       *)
(***************************************************************************)
EXTENDS Integers, Sequences, FiniteSets, TLC

(* ---------------------------- bounds ----------------------------------- *)
\* longest text handed to parse_distinguished_name in SpecParse
MaxLen == 7
\* longest requested attribute list of a search
MaxAttrs == 2
\* longest user list the backend returns
MaxUsers == 2
\* largest message id a request carries
MaxMsgId == 2
\* longest DN handed to is_subtree in SpecSubtree
MaxDn == 3
\* number of connections in SpecConns
NumConns == 2

(* ------------------------ string literals ------------------------------ *)
UNAUTHENTICATED == <<"U", "n", "a", "u", "t", "h", "e", "n", "t", "i", "c", "a", "t", "e", "d">>
DN_PREFIX == <<"d", "n", ":", " ">>
COULD_NOT_PARSE == <<"C", "o", "u", "l", "d", " ", "n", "o", "t", " ", "p", "a", "r", "s", "e", " ", "b", "a", "s", "e", " ", "D", "N", ":", " ", "\"">>
QUOTE == <<"\"">>
ERROR_DURING_SEARCH == <<"E", "r", "r", "o", "r", " ", "d", "u", "r", "i", "n", "g", " ", "s", "e", "a", "r", "c", "h", " ", "f", "o", "r", " ", "\"">>
QUOTE_COLON == <<"\"", ":", " ">>
UNSUPPORTED_ATTRIBUTE == <<"U", "n", "s", "u", "p", "p", "o", "r", "t", "e", "d", " ", "a", "t", "t", "r", "i", "b", "u", "t", "e", ":", " ">>
CN_EQ == <<"c", "n", "=">>
COMMA == <<",">>
A_objectClass == <<"o", "b", "j", "e", "c", "t", "C", "l", "a", "s", "s">>
A_uid == <<"u", "i", "d">>
A_mail == <<"m", "a", "i", "l">>
A_givenName == <<"g", "i", "v", "e", "n", "N", "a", "m", "e">>
A_sn == <<"s", "n">>
A_cn == <<"c", "n">>
A_telephoneNumber == <<"t", "e", "l", "e", "p", "h", "o", "n", "e", "N", "u", "m", "b", "e", "r">>
V_inetOrgPerson == <<"i", "n", "e", "t", "O", "r", "g", "P", "e", "r", "s", "o", "n">>
V_posixAccount == <<"p", "o", "s", "i", "x", "A", "c", "c", "o", "u", "n", "t">>
V_mailAccount == <<"m", "a", "i", "l", "A", "c", "c", "o", "u", "n", "t">>

(* ------------------------- Result<T, E> -------------------------------- *)
\* anyhow::Result: Ok(val) or Err(err); err is the error's Display text.  The
\* text of a DN parse error is never displayed by any caller (Err(_)), so it
\* is kept as one unsplit piece.
Ok(v) == [ok |-> TRUE, val |-> v, err |-> <<>>]
Err(e) == [ok |-> FALSE, val |-> <<>>, err |-> e]

(* ------------------------- DN parsing ---------------------------------- *)
\* str::split(c): the pieces between occurrences of c; always at least one
\* piece, and the empty text gives the single empty piece.
RECURSIVE split(_, _)
split(s, c) ==
    IF \E i \in 1..Len(s) : s[i] = c
    THEN LET i == CHOOSE k \in 1..Len(s) :
                      s[k] = c /\ \A j \in 1..(k - 1) : s[j] # c
         IN  <<SubSeq(s, 1, i - 1)>> \o split(SubSeq(s, i + 1, Len(s)), c)
    ELSE <<s>>

make_dn_pair_DropsExtra(iter) ==
    IF Len(iter) = 0 THEN Err(<<"Empty DN element">>)
    ELSE IF Len(iter) = 1 THEN Err(<<"Missing DN value">>)
    ELSE Ok(<<iter[1], iter[2]>>)

\* iter is the sequence of items the iterator yields
make_dn_pair(iter) ==
    IF Len(iter) = 0 THEN Err(<<"Empty DN element">>)
    ELSE IF Len(iter) = 1 THEN Err(<<"Missing DN value">>)
    ELSE IF Len(iter) >= 3 THEN Err(<<"Too many elements in distinguished name">>)
    ELSE Ok(<<iter[1], iter[2]>>)

\* map over the components, then collect into Result<Vec<_>>: the first
\* failing component makes the whole result that error
parse_distinguished_name(dn) ==
    LET comps == split(dn, ",")
        pairs == [i \in 1..Len(comps) |-> make_dn_pair(split(comps[i], "="))]
    IN  IF \E i \in 1..Len(comps) : ~pairs[i].ok
        THEN LET f == CHOOSE i \in 1..Len(comps) :
                          ~pairs[i].ok /\ \A j \in 1..(i - 1) : pairs[j].ok
             IN  Err(pairs[f].err)
        ELSE Ok([i \in 1..Len(comps) |-> pairs[i].val])

(* ------------------------- subtree matching ---------------------------- *)
is_subtree_FromStart(subtree, base_tree) ==
    IF Len(subtree) < Len(base_tree) THEN FALSE
    ELSE \A i \in 0..(Len(base_tree) - 1) : subtree[i + 1] = base_tree[i + 1]

is_subtree(subtree, base_tree) ==
    IF Len(subtree) < Len(base_tree) THEN FALSE
    ELSE LET size_diff == Len(subtree) - Len(base_tree)
         IN  \A i \in 0..(Len(base_tree) - 1) :
                 subtree[size_diff + i + 1] = base_tree[i + 1]

\* the indices (from 0, as in the code) at which the loop of is_subtree
\* reads subtree: none after the early return, else size_diff + i for
\* every i up to the first mismatch
is_subtree_reads(subtree, base_tree) ==
    IF Len(subtree) < Len(base_tree) THEN {}
    ELSE LET size_diff == Len(subtree) - Len(base_tree)
             differ == {i \in 0..(Len(base_tree) - 1) :
                           subtree[size_diff + i + 1] # base_tree[i + 1]}
             last == IF differ = {} THEN Len(base_tree) - 1
                     ELSE CHOOSE i \in differ : \A j \in differ : i <= j
         IN  {size_diff + i : i \in 0..last}

(* ------------------------- attribute projection ------------------------ *)
get_attribute_SnIsGivenName(user, attribute) ==
    IF attribute = A_objectClass
    THEN Ok(<<V_inetOrgPerson, V_posixAccount, V_mailAccount>>)
    ELSE IF attribute = A_uid THEN Ok(<<user.user_id>>)
    ELSE IF attribute = A_mail THEN Ok(<<user.email>>)
    ELSE IF attribute = A_givenName THEN Ok(<<user.first_name>>)
    ELSE IF attribute = A_sn THEN Ok(<<user.first_name>>)
    ELSE IF attribute = A_cn THEN Ok(<<user.display_name>>)
    ELSE Err(UNSUPPORTED_ATTRIBUTE \o attribute)

get_attribute(user, attribute) ==
    IF attribute = A_objectClass
    THEN Ok(<<V_inetOrgPerson, V_posixAccount, V_mailAccount>>)
    ELSE IF attribute = A_uid THEN Ok(<<user.user_id>>)
    ELSE IF attribute = A_mail THEN Ok(<<user.email>>)
    ELSE IF attribute = A_givenName THEN Ok(<<user.first_name>>)
    ELSE IF attribute = A_sn THEN Ok(<<user.last_name>>)
    ELSE IF attribute = A_cn THEN Ok(<<user.display_name>>)
    ELSE Err(UNSUPPORTED_ATTRIBUTE \o attribute)

make_ldap_search_result_entry_SkipsUnknown(user, base_dn_str, attributes) ==
    LET known == SelectSeq(attributes, LAMBDA a : get_attribute(user, a).ok)
    IN  Ok([dn |-> CN_EQ \o user.user_id \o COMMA \o base_dn_str,
            attributes |-> [i \in 1..Len(known) |->
                               [atype |-> known[i],
                                vals |-> get_attribute(user, known[i]).val]]])

make_ldap_search_result_entry_UidDn(user, base_dn_str, attributes) ==
    LET vals == [i \in 1..Len(attributes) |-> get_attribute(user, attributes[i])]
    IN  IF \E i \in 1..Len(attributes) : ~vals[i].ok
        THEN LET f == CHOOSE i \in 1..Len(attributes) :
                          ~vals[i].ok /\ \A j \in 1..(i - 1) : vals[j].ok
             IN  Err(vals[f].err)
        ELSE Ok([dn |-> A_uid \o <<"=">> \o user.user_id \o COMMA \o base_dn_str,
                 attributes |-> [i \in 1..Len(attributes) |->
                                    [atype |-> attributes[i],
                                     vals |-> vals[i].val]]])

\* LdapSearchResultEntry {dn, attributes}; the ? inside the map makes the
\* first failing attribute the error of the whole entry
make_ldap_search_result_entry(user, base_dn_str, attributes) ==
    LET vals == [i \in 1..Len(attributes) |-> get_attribute(user, attributes[i])]
    IN  IF \E i \in 1..Len(attributes) : ~vals[i].ok
        THEN LET f == CHOOSE i \in 1..Len(attributes) :
                          ~vals[i].ok /\ \A j \in 1..(i - 1) : vals[j].ok
             IN  Err(vals[f].err)
        ELSE Ok([dn |-> CN_EQ \o user.user_id \o COMMA \o base_dn_str,
                 attributes |-> [i \in 1..Len(attributes) |->
                                    [atype |-> attributes[i],
                                     vals |-> vals[i].val]]])

(* ------------------------- protocol messages --------------------------- *)
\* LdapMsg as built by the gen_* helpers of ldap3_server::simple: the
\* message id of the request, the protocol op, its result code and
\* diagnostic message, the extended-response value and the search entry.
None == [some |-> FALSE, val |-> <<>>]
Some(v) == [some |-> TRUE, val |-> v]
NoEntry == [dn |-> <<>>, attributes |-> <<>>]
LdapMsg(msgid, op_, code, message, value, entry) ==
    [msgid |-> msgid, op |-> op_, code |-> code, message |-> message,
     value |-> value, entry |-> entry]

sbr_gen_success(sbr) ==
    LdapMsg(sbr.msgid, "BindResponse", "Success", <<>>, None, NoEntry)
sbr_gen_invalid_cred(sbr) ==
    LdapMsg(sbr.msgid, "BindResponse", "InvalidCredentials", <<>>, None, NoEntry)
lsr_gen_success(lsr) ==
    LdapMsg(lsr.msgid, "SearchResultDone", "Success", <<>>, None, NoEntry)
lsr_gen_error(lsr, code, message) ==
    LdapMsg(lsr.msgid, "SearchResultDone", code, message, None, NoEntry)
lsr_gen_result_entry(lsr, entry) ==
    LdapMsg(lsr.msgid, "SearchResultEntry", "", <<>>, None, entry)
wr_gen_operror(wr, message) ==
    LdapMsg(wr.msgid, "ExtendedResponse", "OperationsError", message, None, NoEntry)
wr_gen_success(wr, value) ==
    LdapMsg(wr.msgid, "ExtendedResponse", "Success", <<>>, Some(value), NoEntry)

(* ------------------------- LdapHandler --------------------------------- *)
\* self is the handler [dn, base_dn, base_dn_str]; a backend call is made
\* where the code makes it and answers with the given result.  Each
\* operation returns what it returns in the code together with the new
\* self.dn and the sequence of backend calls it made.

do_bind_SetsDnOnFailure(self, sbr, bind_result) ==
    IF bind_result.ok
    THEN [dn |-> sbr.dn, msg |-> sbr_gen_success(sbr), calls |-> <<"bind">>]
    ELSE [dn |-> sbr.dn, msg |-> sbr_gen_invalid_cred(sbr), calls |-> <<"bind">>]

do_bind_Retries(self, sbr, bind_result) ==
    IF bind_result.ok
    THEN [dn |-> sbr.dn, msg |-> sbr_gen_success(sbr), calls |-> <<"bind">>]
    ELSE [dn |-> self.dn, msg |-> sbr_gen_invalid_cred(sbr),
          calls |-> <<"bind", "bind">>]

do_bind_LeaksError(self, sbr, bind_result) ==
    IF bind_result.ok
    THEN [dn |-> sbr.dn, msg |-> sbr_gen_success(sbr), calls |-> <<"bind">>]
    ELSE [dn |-> self.dn,
          msg |-> LdapMsg(sbr.msgid, "BindResponse", "InvalidCredentials",
                          bind_result.err, None, NoEntry),
          calls |-> <<"bind">>]

do_bind(self, sbr, bind_result) ==
    IF bind_result.ok
    THEN [dn |-> sbr.dn, msg |-> sbr_gen_success(sbr), calls |-> <<"bind">>]
    ELSE [dn |-> self.dn, msg |-> sbr_gen_invalid_cred(sbr), calls |-> <<"bind">>]

search_results_Reversed(self, lsr, users) ==
    LET n == Len(users)
        entries == [i \in 1..n |->
                       make_ldap_search_result_entry(users[n + 1 - i],
                                                     self.base_dn_str, lsr.attrs)]
    IN  IF \E i \in 1..n : ~entries[i].ok
        THEN LET f == CHOOSE i \in 1..n :
                          ~entries[i].ok /\ \A j \in 1..(i - 1) : entries[j].ok
             IN  Err(entries[f].err)
        ELSE Ok([i \in 1..n |-> lsr_gen_result_entry(lsr, entries[i].val)]
                \o <<lsr_gen_success(lsr)>>)

search_results_BaseScope(self, lsr, users) ==
    LET entries == [i \in 1..Len(users) |->
                       make_ldap_search_result_entry(users[i], self.base_dn_str,
                                                     lsr.attrs)]
    IN  IF lsr.scope = "Base" THEN Ok(<<lsr_gen_success(lsr)>>)
        ELSE IF \E i \in 1..Len(users) : ~entries[i].ok
        THEN LET f == CHOOSE i \in 1..Len(users) :
                          ~entries[i].ok /\ \A j \in 1..(i - 1) : entries[j].ok
             IN  Err(entries[f].err)
        ELSE Ok([i \in 1..Len(users) |-> lsr_gen_result_entry(lsr, entries[i].val)]
                \o <<lsr_gen_success(lsr)>>)

\* users.into_iter().map(entry).map(gen_result_entry).chain(once(success))
\* collected into Result<Vec<_>>: the first failing entry is the error
search_results(self, lsr, users) ==
    LET entries == [i \in 1..Len(users) |->
                       make_ldap_search_result_entry(users[i], self.base_dn_str,
                                                     lsr.attrs)]
    IN  IF \E i \in 1..Len(users) : ~entries[i].ok
        THEN LET f == CHOOSE i \in 1..Len(users) :
                          ~entries[i].ok /\ \A j \in 1..(i - 1) : entries[j].ok
             IN  Err(entries[f].err)
        ELSE Ok([i \in 1..Len(users) |-> lsr_gen_result_entry(lsr, entries[i].val)]
                \o <<lsr_gen_success(lsr)>>)

do_search_NoScopeCheck(self, lsr, list_users_result) ==
    LET dn_parts == parse_distinguished_name(lsr.base)
    IN  IF ~dn_parts.ok
        THEN [msgs |-> <<lsr_gen_error(lsr, "OperationsError",
                                       COULD_NOT_PARSE \o lsr.base \o QUOTE)>>,
              calls |-> <<>>]
        ELSE IF ~list_users_result.ok
        THEN [msgs |-> <<lsr_gen_error(lsr, "Other",
                                       ERROR_DURING_SEARCH \o lsr.base
                                       \o QUOTE_COLON \o list_users_result.err)>>,
              calls |-> <<"list_users">>]
        ELSE LET collected == search_results(self, lsr, list_users_result.val)
             IN  [msgs |-> IF collected.ok THEN collected.val
                           ELSE <<lsr_gen_error(lsr, "NoSuchAttribute",
                                                collected.err)>>,
                  calls |-> <<"list_users">>]

do_search_ParseDefault(self, lsr, list_users_result) ==
    LET dn_parts == parse_distinguished_name(lsr.base)
    IN  IF ~is_subtree(dn_parts.val, self.base_dn)
        THEN [msgs |-> <<lsr_gen_success(lsr)>>, calls |-> <<>>]
        ELSE IF ~list_users_result.ok
        THEN [msgs |-> <<lsr_gen_error(lsr, "Other",
                                       ERROR_DURING_SEARCH \o lsr.base
                                       \o QUOTE_COLON \o list_users_result.err)>>,
              calls |-> <<"list_users">>]
        ELSE LET collected == search_results(self, lsr, list_users_result.val)
             IN  [msgs |-> IF collected.ok THEN collected.val
                           ELSE <<lsr_gen_error(lsr, "NoSuchAttribute",
                                                collected.err)>>,
                  calls |-> <<"list_users">>]

do_search_BackendErrorCode(self, lsr, list_users_result) ==
    LET dn_parts == parse_distinguished_name(lsr.base)
    IN  IF ~dn_parts.ok
        THEN [msgs |-> <<lsr_gen_error(lsr, "OperationsError",
                                       COULD_NOT_PARSE \o lsr.base \o QUOTE)>>,
              calls |-> <<>>]
        ELSE IF ~is_subtree(dn_parts.val, self.base_dn)
        THEN [msgs |-> <<lsr_gen_success(lsr)>>, calls |-> <<>>]
        ELSE IF ~list_users_result.ok
        THEN [msgs |-> <<lsr_gen_error(lsr, "OperationsError",
                                                 ERROR_DURING_SEARCH \o lsr.base
                                                 \o QUOTE_COLON
                                                 \o list_users_result.err)>>,
              calls |-> <<"list_users">>]
        ELSE LET collected == search_results(self, lsr, list_users_result.val)
             IN  [msgs |-> IF collected.ok THEN collected.val
                           ELSE <<lsr_gen_error(lsr, "NoSuchAttribute",
                                                collected.err)>>,
                  calls |-> <<"list_users">>]

do_search(self, lsr, list_users_result) ==
    LET dn_parts == parse_distinguished_name(lsr.base)
    IN  IF ~dn_parts.ok
        THEN [msgs |-> <<lsr_gen_error(lsr, "OperationsError",
                                       COULD_NOT_PARSE \o lsr.base \o QUOTE)>>,
              calls |-> <<>>]
        ELSE IF ~is_subtree(dn_parts.val, self.base_dn)
        THEN [msgs |-> <<lsr_gen_success(lsr)>>, calls |-> <<>>]
        ELSE IF ~list_users_result.ok
        THEN [msgs |-> <<lsr_gen_error(lsr, "Other",
                                       ERROR_DURING_SEARCH \o lsr.base
                                       \o QUOTE_COLON \o list_users_result.err)>>,
              calls |-> <<"list_users">>]
        ELSE LET collected == search_results(self, lsr, list_users_result.val)
             IN  [msgs |-> IF collected.ok THEN collected.val
                           ELSE <<lsr_gen_error(lsr, "NoSuchAttribute",
                                                collected.err)>>,
                  calls |-> <<"list_users">>]

do_whoami(self, wr) ==
    IF self.dn = UNAUTHENTICATED
    THEN wr_gen_operror(wr, UNAUTHENTICATED)
    ELSE wr_gen_success(wr, DN_PREFIX \o self.dn)

handle_ldap_message_SearchNeedsBind(self, server_op, backend) ==
    CASE server_op.kind = "SimpleBind" ->
           LET r == do_bind(self, server_op.req, backend)
           IN  [dn |-> r.dn, ret |-> Some(<<r.msg>>), calls |-> r.calls]
      [] server_op.kind = "Search" ->
           IF self.dn = UNAUTHENTICATED
           THEN [dn |-> self.dn,
                 ret |-> Some(<<lsr_gen_error(server_op.req,
                                              "InsufficientAccessRights", <<>>)>>),
                 calls |-> <<>>]
           ELSE LET r == do_search(self, server_op.req, backend)
                IN  [dn |-> self.dn, ret |-> Some(r.msgs), calls |-> r.calls]
      [] server_op.kind = "Unbind" ->
           [dn |-> self.dn, ret |-> None, calls |-> <<>>]
      [] server_op.kind = "Whoami" ->
           [dn |-> self.dn, ret |-> Some(<<do_whoami(self, server_op.req)>>),
            calls |-> <<>>]

handle_ldap_message_UnbindReplies(self, server_op, backend) ==
    CASE server_op.kind = "SimpleBind" ->
           LET r == do_bind(self, server_op.req, backend)
           IN  [dn |-> r.dn, ret |-> Some(<<r.msg>>), calls |-> r.calls]
      [] server_op.kind = "Search" ->
           LET r == do_search(self, server_op.req, backend)
           IN  [dn |-> self.dn, ret |-> Some(r.msgs), calls |-> r.calls]
      [] server_op.kind = "Unbind" ->
           [dn |-> self.dn, ret |-> Some(<<>>), calls |-> <<>>]
      [] server_op.kind = "Whoami" ->
           [dn |-> self.dn, ret |-> Some(<<do_whoami(self, server_op.req)>>),
            calls |-> <<>>]

\* server_op is [kind, req]; backend is the result the backend gives to the
\* call the operation makes
handle_ldap_message(self, server_op, backend) ==
    CASE server_op.kind = "SimpleBind" ->
           LET r == do_bind(self, server_op.req, backend)
           IN  [dn |-> r.dn, ret |-> Some(<<r.msg>>), calls |-> r.calls]
      [] server_op.kind = "Search" ->
           LET r == do_search(self, server_op.req, backend)
           IN  [dn |-> self.dn, ret |-> Some(r.msgs), calls |-> r.calls]
      [] server_op.kind = "Unbind" ->
           [dn |-> self.dn, ret |-> None, calls |-> <<>>]
      [] server_op.kind = "Whoami" ->
           [dn |-> self.dn, ret |-> Some(<<do_whoami(self, server_op.req)>>),
            calls |-> <<>>]

(* ------------------------- inputs -------------------------------------- *)
SeqsUpTo(S, n) == UNION {[1..k -> S] : k \in 0..n}

MsgIds == 1..MaxMsgId
\* bind names a client may send: ordinary names, the empty name and the
\* name that spells the handler's initial dn
Principals == {<<"t", "e", "s", "t">>, <<"b", "o", "b">>, <<>>, UNAUTHENTICATED}
Passwords == {<<"p", "a", "s", "s">>, <<>>}
\* Display texts of the errors the backend may fail with
BackendErrors == {<<"n", "o">>, <<"d", "b">>}
bob == [user_id |-> <<"b", "o", "b", "_", "1">>, email |-> <<"b", "@", "b", ".", "b">>, display_name |-> <<"B", " ", "B">>,
        first_name |-> <<"B">>, last_name |-> <<"B", "b">>, creation_date |-> 1]
jim == [user_id |-> <<"j", "i", "m">>, email |-> <<"j", "@", "c", ".", "j">>, display_name |-> <<"J", " ", "C">>,
        first_name |-> <<"J", "i", "m">>, last_name |-> <<"C">>, creation_date |-> 2]
Users == {bob, jim}
\* a user whose id contains a DN separator
eve == [user_id |-> <<"e", "=", "v">>, email |-> <<"e", "@", "v">>,
        display_name |-> <<"E">>, first_name |-> <<"E">>, last_name |-> <<"V">>,
        creation_date |-> 3]
OddUsers == {eve}
AttrNames == {A_uid, A_objectClass, A_telephoneNumber}
Scopes == {"Base", "Subtree"}
Filters == {"And([])", "Present(uid)"}
\* configured base DNs (texts that parse)
ConfigBaseDns == {<<"d", "c", "=", "c", "o", "m">>,
                  <<"d", "c", "=", "e", "x", ",", "d", "c", "=", "c", "o", "m">>}
\* search bases: equal to a configured base, below it, outside it, and
\* texts that do not parse (empty, no '=', two '=', empty last component)
SearchBases ==
    {<<"d", "c", "=", "c", "o", "m">>,
     <<"d", "c", "=", "e", "x", ",", "d", "c", "=", "c", "o", "m">>,
     <<"o", "u", "=", "p", ",", "d", "c", "=", "e", "x", ",", "d", "c", "=", "c", "o", "m">>,
     <<"d", "c", "=", "o", "r", "g">>,
     <<"=", ",", "d", "c", "=", "c", "o", "m">>,
     <<>>,
     <<"c", "n">>,
     <<"c", "n", "=", "a", "=", "b">>,
     <<"d", "c", "=", "c", "o", "m", ",">>}

BindResults == {Ok(<<>>)} \cup {Err(e) : e \in BackendErrors}
ListUsersResults ==
    {Ok(us) : us \in SeqsUpTo(Users, MaxUsers)} \cup {Ok(<<u>>) : u \in OddUsers}
    \cup {Err(e) : e \in BackendErrors}
SimpleBindRequests ==
    [msgid : MsgIds, dn : Principals, pw : Passwords]
SearchRequests ==
    [msgid : MsgIds, base : SearchBases, scope : Scopes, filter : Filters,
     attrs : SeqsUpTo(AttrNames, MaxAttrs)]
WhoamiRequests == [msgid : MsgIds]

(* ------------------------- state --------------------------------------- *)
VARIABLES
    pc,            \* "idle": waiting for an operation; "responded": the
                   \* handler has returned and the caller holds the result
    dn,            \* LdapHandler.dn
    base_dn,       \* LdapHandler.base_dn
    base_dn_str,   \* LdapHandler.base_dn_str
    server_op,     \* the operation handled last
    backend,       \* the result the backend gave (or would have given)
    ret,           \* the Option<Vec<LdapMsg>> returned for server_op
    calls,         \* the backend calls made while handling server_op
    last_ok_bind,  \* history: the name of the latest bind the backend accepted
    other_run,     \* a second run of a failed bind: the same request on the
                   \* same handler, the backend failing with error err,
                   \* and the dn and return value that run ends with
    text,          \* SpecParse: the text given to parse_distinguished_name
    parsed,        \* SpecParse: its result
    args,          \* SpecSubtree, SpecEntry: the arguments of the function
    result,        \* SpecSubtree, SpecEntry: what the function returned
    variants,      \* SpecVariants: the return values of the search handled
                   \* last when only its filter and scope, or only
                   \* self.dn, differ
    config,        \* the ldap_base_dn handed to LdapHandler::new
    conn_dn,       \* SpecConns: self.dn of the handler of each connection
    solo_dn,       \* SpecConns: self.dn of each connection had its own
                   \* operations been handled with no other connection
    solo_ret,      \* SpecConns: what that lone handler returned for server_op
    active         \* SpecConns: the connection server_op arrived on

fnVars == <<text, parsed, args, result>>
connVars == <<conn_dn, solo_dn, solo_ret, active>>
vars == <<pc, dn, base_dn, base_dn_str, server_op, backend, ret, calls,
          last_ok_bind, other_run, text, parsed, args, result, variants,
          config, conn_dn, solo_dn, solo_ret, active>>

self == [dn |-> dn, base_dn |-> base_dn, base_dn_str |-> base_dn_str]

NoOp == [kind |-> "none"]
NoBackend == Ok(<<>>)
NoRun == [err |-> <<>>, dn |-> <<>>, ret |-> None]
NoArgs == [fn |-> "none"]
NoVariants == [by_filter_scope |-> {}, by_dn |-> {}]
\* the variables of the other specifications, at rest
FnIdle == text = <<>> /\ parsed = Ok(<<>>) /\ args = NoArgs /\ result = NoArgs
ConnsIdle == conn_dn = <<>> /\ solo_dn = <<>> /\ solo_ret = None /\ active = 0

\* LdapHandler::new with a base DN text that parses
New(ldap_base_dn) ==
    /\ dn = UNAUTHENTICATED
    /\ base_dn = parse_distinguished_name(ldap_base_dn).val
    /\ base_dn_str = ldap_base_dn

Init ==
    /\ pc = "idle"
    /\ \E b \in ConfigBaseDns : New(b) /\ config = b
    /\ server_op = NoOp
    /\ backend = NoBackend
    /\ ret = None
    /\ calls = <<>>
    /\ last_ok_bind = None
    /\ other_run = NoRun
    /\ variants = NoVariants
    /\ FnIdle
    /\ ConnsIdle

\* the same search handled again: once for every filter and scope the
\* request could carry instead, and once for every self.dn the handler
\* could hold instead
SearchVariants(h, lsr, b) ==
    [by_filter_scope |->
         {handle_ldap_message(h, [kind |-> "Search",
                                  req |-> [lsr EXCEPT !.scope = sc, !.filter = f]],
                              b).ret : sc \in Scopes, f \in Filters},
     by_dn |->
         {handle_ldap_message([h EXCEPT !.dn = d],
                              [kind |-> "Search", req |-> lsr], b).ret :
              d \in Principals \cup {UNAUTHENTICATED}}]

\* handle_ldap_message(op) with the backend answering b, taken by a handler
\* that is waiting for an operation
Handle(op, b) ==
    \E h \in {handle_ldap_message(self, op, b)} :
        /\ pc' = "responded"
        /\ dn' = h.dn
        /\ ret' = h.ret
        /\ calls' = h.calls
        /\ server_op' = op
        /\ backend' = b
        /\ UNCHANGED <<base_dn, base_dn_str, config, fnVars, connVars>>

SimpleBind ==
    /\ pc = "idle"
    /\ \E sbr \in SimpleBindRequests, b \in BindResults :
        LET op == [kind |-> "SimpleBind", req |-> sbr]
        IN  /\ Handle(op, b)
            /\ UNCHANGED variants
            /\ last_ok_bind' = IF b.ok THEN Some(sbr.dn) ELSE last_ok_bind
            /\ IF b.ok
               THEN other_run' = NoRun
               ELSE \E e \in BackendErrors :
                        LET o == handle_ldap_message(self, op, Err(e))
                        IN  other_run' = [err |-> e, dn |-> o.dn, ret |-> o.ret]

Search ==
    /\ pc = "idle"
    /\ \E lsr \in SearchRequests, b \in ListUsersResults :
        /\ Handle([kind |-> "Search", req |-> lsr], b)
        /\ UNCHANGED <<last_ok_bind, variants>>
        /\ other_run' = NoRun

Whoami ==
    /\ pc = "idle"
    /\ \E wr \in WhoamiRequests :
        /\ Handle([kind |-> "Whoami", req |-> wr], NoBackend)
        /\ UNCHANGED <<last_ok_bind, variants>>
        /\ other_run' = NoRun

Unbind ==
    /\ pc = "idle"
    /\ Handle([kind |-> "Unbind"], NoBackend)
    /\ UNCHANGED <<last_ok_bind, variants>>
    /\ other_run' = NoRun

\* the caller takes the returned messages; the handler waits for the next
\* operation of the connection
Respond ==
    /\ pc = "responded"
    /\ pc' = "idle"
    /\ server_op' = NoOp
    /\ backend' = NoBackend
    /\ ret' = None
    /\ calls' = <<>>
    /\ other_run' = NoRun
    /\ variants' = NoVariants
    /\ UNCHANGED <<dn, base_dn, base_dn_str, last_ok_bind, config, fnVars,
                   connVars>>

Next == SimpleBind \/ Search \/ Whoami \/ Unbind \/ Respond

Spec == Init /\ [][Next]_vars

(* ------------- a search and its variants, side by side ----------------- *)
VariantSearch ==
    /\ pc = "idle"
    /\ \E lsr \in SearchRequests, b \in ListUsersResults :
        /\ Handle([kind |-> "Search", req |-> lsr], b)
        /\ UNCHANGED <<last_ok_bind>>
        /\ other_run' = NoRun
        /\ variants' = SearchVariants(self, lsr, b)

VariantsNext == VariantSearch \/ Respond

SpecVariants == Init /\ [][VariantsNext]_vars

\* a handler that was constructed and handles nothing
HandlerAtRest ==
    /\ New(CHOOSE b \in ConfigBaseDns : Len(b) = 6)
    /\ config = base_dn_str
    /\ server_op = NoOp
    /\ backend = NoBackend
    /\ ret = None
    /\ calls = <<>>
    /\ last_ok_bind = None
    /\ other_run = NoRun
    /\ variants = NoVariants
handlerVars == <<dn, base_dn, base_dn_str, config, server_op, backend, ret,
                 calls, last_ok_bind, other_run, variants>>

(* ------------------- parse_distinguished_name alone -------------------- *)
ParseChars == {"a", "b", "=", ","}

ParseInit ==
    /\ pc = "parse"
    /\ New(CHOOSE b \in ConfigBaseDns : Len(b) = 6)
    /\ config = base_dn_str
    /\ server_op = NoOp
    /\ backend = NoBackend
    /\ ret = None
    /\ calls = <<>>
    /\ last_ok_bind = None
    /\ other_run = NoRun
    /\ variants = NoVariants
    /\ text \in SeqsUpTo(ParseChars, MaxLen)
    /\ parsed = Ok(<<>>)
    /\ args = NoArgs
    /\ result = NoArgs
    /\ ConnsIdle

Parse ==
    /\ pc = "parse"
    /\ pc' = "parsed"
    /\ parsed' = parse_distinguished_name(text)
    /\ UNCHANGED <<dn, base_dn, base_dn_str, server_op, backend, ret, calls,
                   last_ok_bind, other_run, text, args, result, variants,
                   config, connVars>>

ParseNext == Parse

SpecParse == ParseInit /\ [][ParseNext]_vars

(* ========================= properties ================================== *)
Responded(kind) == pc = "responded" /\ server_op.kind = kind
Supported == {A_objectClass, A_uid, A_mail, A_givenName, A_sn, A_cn}
\* the search base parses and lies within the configured base DN
InScope(lsr) ==
    /\ parse_distinguished_name(lsr.base).ok
    /\ is_subtree(parse_distinguished_name(lsr.base).val, base_dn)
\* sub occurs in t as a contiguous piece
Contains(t, sub) ==
    \E i \in 0..(Len(t) - Len(sub)) : SubSeq(t, i + 1, i + Len(sub)) = sub
IsDone(m, code) == m.op = "SearchResultDone" /\ m.code = code

\* C1: a bind the backend accepts for name p returns the bind success
\* response and leaves the connection bound as p, and every whoami handled
\* while p is the latest accepted bind returns success with "dn: " + p.
C1_BindThenWhoami ==
    /\ (Responded("SimpleBind") /\ backend.ok) =>
           /\ ret = Some(<<sbr_gen_success(server_op.req)>>)
           /\ dn = server_op.req.dn
    /\ (Responded("Whoami") /\ last_ok_bind.some) =>
           ret = Some(<<wr_gen_success(server_op.req,
                                       DN_PREFIX \o last_ok_bind.val)>>)

\* C2: a new handler is Unauthenticated; dn changes only in a step that
\* handles a bind the backend accepts; and a whoami handled while no bind
\* has been accepted returns the operations error "Unauthenticated".
C2_OnlyAcceptedBindChangesDn ==
    /\ dn = UNAUTHENTICATED
    /\ [][/\ (dn' # dn) =>
                 (pc' = "responded" /\ server_op'.kind = "SimpleBind" /\ backend'.ok)
          /\ (pc' = "responded" /\ server_op'.kind = "Whoami" /\ ~last_ok_bind'.some) =>
                 ret' = Some(<<wr_gen_operror(server_op'.req, UNAUTHENTICATED)>>)]_vars

\* a failed bind on a connection bound under another name left dn alone
C2_Witness ==
    /\ Responded("SimpleBind") /\ ~backend.ok
    /\ last_ok_bind.some /\ dn = last_ok_bind.val /\ dn # UNAUTHENTICATED
    /\ server_op.req.dn # dn

\* C3: an in-scope search with users u1..un from the backend and only
\* supported attribute names returns n+1 messages: the entry of u1, ...,
\* the entry of un in backend order, then one success message.
C3_EntriesThenSuccess ==
    (/\ Responded("Search") /\ InScope(server_op.req) /\ backend.ok
     /\ \A i \in 1..Len(server_op.req.attrs) : server_op.req.attrs[i] \in Supported)
    => LET lsr == server_op.req
           users == backend.val
           n == Len(users)
       IN  /\ ret.some
           /\ Len(ret.val) = n + 1
           /\ \A i \in 1..n :
                  /\ ret.val[i].op = "SearchResultEntry"
                  /\ ret.val[i].msgid = lsr.msgid
                  /\ ret.val[i].entry.dn =
                         CN_EQ \o users[i].user_id \o COMMA \o base_dn_str
                  /\ ret.val[i].entry =
                         make_ldap_search_result_entry(users[i], base_dn_str,
                                                       lsr.attrs).val
           /\ ret.val[n + 1] = lsr_gen_success(lsr)

C3_Witness ==
    /\ Responded("Search") /\ InScope(server_op.req) /\ backend.ok
    /\ Len(backend.val) = 2 /\ backend.val[1] # backend.val[2]
    /\ server_op.req.attrs = <<A_objectClass, A_uid>>
    /\ Len(ret.val) = 3

\* C4 as claimed: an in-scope search the backend answers, asking for some
\* unsupported attribute name, returns one NoSuchAttribute error and nothing
\* else, for every user list.
C4_Original ==
    (/\ Responded("Search") /\ InScope(server_op.req) /\ backend.ok
     /\ \E i \in 1..Len(server_op.req.attrs) : server_op.req.attrs[i] \notin Supported)
    => /\ ret.some
       /\ Len(ret.val) = 1
       /\ IsDone(ret.val[1], "NoSuchAttribute")

\* C4 amended: the same for every user list with at least one user; with
\* no user the search returns the single success message.
C4_NoSuchAttribute ==
    (/\ Responded("Search") /\ InScope(server_op.req) /\ backend.ok
     /\ \E i \in 1..Len(server_op.req.attrs) : server_op.req.attrs[i] \notin Supported)
    => /\ ret.some
       /\ Len(ret.val) = 1
       /\ IF Len(backend.val) >= 1
          THEN IsDone(ret.val[1], "NoSuchAttribute")
          ELSE ret.val[1] = lsr_gen_success(server_op.req)

\* two users, the first attribute supported and the second not
C4_Witness ==
    /\ Responded("Search") /\ InScope(server_op.req) /\ backend.ok
    /\ Len(backend.val) = 2
    /\ server_op.req.attrs = <<A_uid, A_telephoneNumber>>
    /\ IsDone(ret.val[1], "NoSuchAttribute")

\* C5: a search whose base parses but is not within the configured base DN
\* returns exactly one message, the success, whatever else is asked and
\* whatever the backend would answer.
C5_OutOfScopeEmptySuccess ==
    (/\ Responded("Search")
     /\ parse_distinguished_name(server_op.req.base).ok
     /\ ~is_subtree(parse_distinguished_name(server_op.req.base).val, base_dn))
    => ret = Some(<<lsr_gen_success(server_op.req)>>)

C5_Witness ==
    /\ Responded("Search")
    /\ parse_distinguished_name(server_op.req.base).ok
    /\ ~is_subtree(parse_distinguished_name(server_op.req.base).val, base_dn)
    /\ backend.ok /\ Len(backend.val) = 2
    /\ server_op.req.attrs = <<A_telephoneNumber>>
    /\ Len(ret.val) = 1

\* C6: a search whose base does not parse returns exactly one message, an
\* OperationsError whose text contains the base text.
C6_UnparsableBaseError ==
    (Responded("Search") /\ ~parse_distinguished_name(server_op.req.base).ok)
    => /\ ret.some
       /\ Len(ret.val) = 1
       /\ IsDone(ret.val[1], "OperationsError")
       /\ Contains(ret.val[1].message, server_op.req.base)
       /\ ret.val[1].message = COULD_NOT_PARSE \o server_op.req.base \o QUOTE

C6_Witness ==
    /\ Responded("Search") /\ ~parse_distinguished_name(server_op.req.base).ok
    /\ Len(server_op.req.base) > 0
    /\ backend.ok /\ Len(backend.val) = 2
    /\ server_op.req.attrs = <<A_uid>>
    /\ IsDone(ret.val[1], "OperationsError")

\* C7: an in-scope search for which list_users fails returns exactly one
\* message, an error with code Other naming the search base and the
\* backend's error.
C7_BackendFailureOther ==
    (Responded("Search") /\ InScope(server_op.req) /\ ~backend.ok)
    => /\ ret.some
       /\ Len(ret.val) = 1
       /\ IsDone(ret.val[1], "Other")
       /\ Contains(ret.val[1].message, server_op.req.base)
       /\ Contains(ret.val[1].message, backend.err)

C7_Witness ==
    /\ Responded("Search") /\ InScope(server_op.req) /\ ~backend.ok
    /\ Len(backend.err) > 0
    /\ server_op.req.attrs = <<A_telephoneNumber>>
    /\ IsDone(ret.val[1], "Other")

\* C8: the handler returns None exactly for Unbind; a bind and a whoami
\* return one message; a search returns a non-empty sequence whose last
\* message is its only result message, with entries only before a success.
C8_ReturnShape ==
    pc = "responded" =>
        /\ ~ret.some <=> server_op.kind = "Unbind"
        /\ server_op.kind \in {"SimpleBind", "Whoami"} =>
               /\ Len(ret.val) = 1
               /\ ret.val[1].op # "SearchResultEntry"
        /\ server_op.kind = "Search" =>
               LET n == Len(ret.val)
               IN  /\ n >= 1
                   /\ ret.val[n].op = "SearchResultDone"
                   /\ \A i \in 1..(n - 1) : ret.val[i].op = "SearchResultEntry"
                   /\ n > 1 => ret.val[n].code = "Success"

\* an Unbind was handled and nothing was returned
C8_Witness == Responded("Unbind") /\ ret = None /\ last_ok_bind.some

\* C9: two runs of a failed bind that differ only in the backend's error
\* return the same InvalidCredentials response and end with the same dn.
C9_BindFailureUniform ==
    (Responded("SimpleBind") /\ ~backend.ok)
    => /\ ret = Some(<<sbr_gen_invalid_cred(server_op.req)>>)
       /\ other_run.ret = ret
       /\ other_run.dn = dn

\* the second run failed with a different error
C9_Witness ==
    /\ Responded("SimpleBind") /\ ~backend.ok
    /\ other_run.err # backend.err
    /\ last_ok_bind.some /\ server_op.req.dn # dn

(* ----- what a well-formed DN text is, stated without the parser -------- *)
\* positions that delimit the comma-separated components of t
Bounds(t) == {0, Len(t) + 1} \cup {i \in 1..Len(t) : t[i] = ","}
NextBound(t, b) == CHOOSE c \in Bounds(t) : c > b /\ \A d \in Bounds(t) : d > b => c <= d
\* every comma-separated component of t has exactly one '='
WellFormed(t) ==
    \A b \in Bounds(t) \ {Len(t) + 1} :
        Cardinality({i \in (b + 1)..(NextBound(t, b) - 1) : t[i] = "="}) = 1
RECURSIVE Join(_)
Join(pairs) ==
    IF Len(pairs) = 0 THEN <<>>
    ELSE pairs[1][1] \o <<"=">> \o pairs[1][2]
         \o (IF Len(pairs) = 1 THEN <<>> ELSE <<",">> \o Join(Tail(pairs)))
Plain(t) == \A i \in 1..Len(t) : t[i] \notin {"=", ","}

\* C10: for a non-empty text the parse succeeds exactly when every
\* comma-separated component has exactly one '='; the result then has one
\* pair per component, in order and verbatim (joining the pairs with '='
\* and ',' gives the text back); a failed parse yields no DN at all.
C10_ParseWellFormed ==
    (pc = "parsed" /\ text # <<>>)
    => /\ parsed.ok <=> WellFormed(text)
       /\ parsed.ok =>
              /\ Len(parsed.val) = Cardinality(Bounds(text)) - 1
              /\ \A i \in 1..Len(parsed.val) :
                     /\ Len(parsed.val[i]) = 2
                     /\ Plain(parsed.val[i][1]) /\ Plain(parsed.val[i][2])
              /\ Join(parsed.val) = text
       /\ ~parsed.ok => parsed.val = <<>>

\* a two-component text was parsed into two pairs
C10_Witness ==
    /\ pc = "parsed" /\ parsed.ok
    /\ text = <<"a", "=", "b", ",", "b", "=", "a">>
    /\ parsed.val = << <<(<<"a">>), (<<"b">>)>>, <<(<<"b">>), (<<"a">>)>> >>

\* C11: parse_distinguished_name of the empty text succeeds and returns the
\* DN with no component.
C11_EmptyTextParses ==
    (pc = "parsed" /\ text = <<>>) => parsed = Ok(<<>>)

(* ------------------------- is_subtree alone ---------------------------- *)
DnPairs == { <<(<<"d", "c">>), (<<"c", "o", "m">>)>>,
             <<(<<"o", "u">>), (<<"p">>)>> }
Dns == SeqsUpTo(DnPairs, MaxDn)

SubtreeInit ==
    /\ pc = "subtree"
    /\ HandlerAtRest
    /\ ConnsIdle
    /\ text = <<>>
    /\ parsed = Ok(<<>>)
    /\ \E c \in Dns, b \in Dns :
           args = [fn |-> "is_subtree", subtree |-> c, base_tree |-> b]
    /\ result = NoArgs

Subtree ==
    /\ pc = "subtree"
    /\ pc' = "subtree_done"
    /\ result' = [fn |-> "is_subtree",
                  val |-> is_subtree(args.subtree, args.base_tree),
                  reads |-> is_subtree_reads(args.subtree, args.base_tree)]
    /\ UNCHANGED <<handlerVars, connVars, text, parsed, args>>

SubtreeNext == Subtree

SpecSubtree == SubtreeInit /\ [][SubtreeNext]_vars

\* C12: is_subtree(candidate, base) is true exactly when candidate is at
\* least as long as base and its last Len(base) components are base; so it
\* holds of (x, x), of (prefix + base, base) and of every candidate with the
\* empty base, and fails for the empty candidate with a non-empty base; and
\* every index read lies inside candidate.
C12_SubtreeIsSuffix ==
    pc = "subtree_done" =>
        LET c == args.subtree
            b == args.base_tree
        IN  /\ result.val <=>
                   /\ Len(c) >= Len(b)
                   /\ SubSeq(c, Len(c) - Len(b) + 1, Len(c)) = b
            /\ c = b => result.val
            /\ (\E pre \in Dns : c = pre \o b) => result.val
            /\ b = <<>> => result.val
            /\ (c = <<>> /\ b # <<>>) => ~result.val
            /\ result.reads \subseteq 0..(Len(c) - 1)

\* a proper subtree whose leading components differ from the base
C12_Witness ==
    /\ pc = "subtree_done" /\ result.val
    /\ Len(args.subtree) = 3 /\ Len(args.base_tree) = 2
    /\ args.subtree[1] # args.base_tree[1]
    /\ result.reads = {1, 2}

(* ----------------- make_ldap_search_result_entry alone ----------------- *)
\* requested names: the supported ones, an unsupported one and a supported
\* one in another case
EntryAttrNames == Supported \cup {A_telephoneNumber, <<"U", "I", "D">>}

EntryInit ==
    /\ pc = "entry"
    /\ HandlerAtRest
    /\ ConnsIdle
    /\ text = <<>>
    /\ parsed = Ok(<<>>)
    /\ \E u \in Users \cup OddUsers, b \in ConfigBaseDns,
          as \in SeqsUpTo(EntryAttrNames, MaxAttrs) :
           args = [fn |-> "make_ldap_search_result_entry", user |-> u,
                   base_dn_str |-> b, attributes |-> as]
    /\ result = NoArgs

Entry ==
    /\ pc = "entry"
    /\ pc' = "entry_done"
    /\ result' = make_ldap_search_result_entry(args.user, args.base_dn_str,
                                               args.attributes)
    /\ UNCHANGED <<handlerVars, connVars, text, parsed, args>>

EntryNext == Entry

SpecEntry == EntryInit /\ [][EntryNext]_vars

\* the values each supported attribute name stands for
FixedMapping(user) ==
    [a \in Supported |->
        CASE a = A_objectClass -> <<V_inetOrgPerson, V_posixAccount, V_mailAccount>>
          [] a = A_uid -> <<user.user_id>>
          [] a = A_mail -> <<user.email>>
          [] a = A_givenName -> <<user.first_name>>
          [] a = A_sn -> <<user.last_name>>
          [] a = A_cn -> <<user.display_name>>]

\* C13: an entry is built exactly when every requested name is supported;
\* its DN is "cn=" + user id + "," + base-DN text, and its attributes are
\* the requested names, in order and with duplicates, each with the values
\* of the fixed mapping.
C13_EntryProjection ==
    pc = "entry_done" =>
        LET as == args.attributes
        IN  /\ result.ok <=> \A i \in 1..Len(as) : as[i] \in Supported
            /\ result.ok =>
                   /\ result.val.dn =
                          CN_EQ \o args.user.user_id \o COMMA \o args.base_dn_str
                   /\ Len(result.val.attributes) = Len(as)
                   /\ \A i \in 1..Len(as) :
                          /\ result.val.attributes[i].atype = as[i]
                          /\ result.val.attributes[i].vals =
                                 FixedMapping(args.user)[as[i]]

\* the same name requested twice gives two attributes
C13_Witness ==
    /\ pc = "entry_done" /\ result.ok
    /\ args.attributes = <<A_sn, A_sn>>
    /\ Len(result.val.attributes) = 2
    /\ result.val.attributes[2].vals = <<args.user.last_name>>

\* C14: every result entry a search returns has a DN text that parses to a
\* DN within the configured base DN, whatever the user id is.
C14_EntriesWithinConfiguredBase ==
    Responded("Search") =>
        \A i \in 1..Len(ret.val) :
            ret.val[i].op = "SearchResultEntry" =>
                /\ parse_distinguished_name(ret.val[i].entry.dn).ok
                /\ is_subtree(parse_distinguished_name(ret.val[i].entry.dn).val,
                              base_dn)

\* the number of result entries among the messages returned
EntryCount == Cardinality({i \in 1..Len(ret.val) : ret.val[i].op = "SearchResultEntry"})
FullAnswer ==
    (/\ InScope(server_op.req) /\ backend.ok
     /\ \A i \in 1..Len(server_op.req.attrs) : server_op.req.attrs[i] \in Supported)
    => EntryCount = Len(backend.val)

\* C15: a search returns the same messages whatever filter and scope the
\* request carries (same base, attribute list, handler state and backend
\* answer), and an answered in-scope search has an entry for every user.
C15_FilterScopeIgnored ==
    Responded("Search") =>
        /\ variants.by_filter_scope = {ret}
        /\ FullAnswer

\* two users returned to a base-scoped search with a filter
C15_Witness ==
    /\ Responded("Search")
    /\ server_op.req.scope = "Base" /\ server_op.req.filter = "Present(uid)"
    /\ backend.ok /\ Len(backend.val) = 2
    /\ EntryCount = 2
    /\ variants.by_filter_scope = {ret}

\* C19: a search returns the same messages whatever self.dn is: a
\* connection that is not bound gets what a connection bound under any name
\* gets, all user entries included.
C19_SearchIgnoresBind ==
    Responded("Search") =>
        /\ variants.by_dn = {ret}
        /\ FullAnswer

\* a connection that never bound got the entries of two users
C19_Witness ==
    /\ Responded("Search")
    /\ dn = UNAUTHENTICATED /\ ~last_ok_bind.some
    /\ backend.ok /\ Len(backend.val) = 2
    /\ EntryCount = 2
    /\ variants.by_dn = {ret}

(* ------------------ several connections, one handler each -------------- *)
Conns == 1..NumConns
\* searches of the connections: one filter and scope, at most one attribute
ConnSearchRequests ==
    {r \in SearchRequests :
        r.scope = "Base" /\ r.filter = "And([])" /\ Len(r.attrs) <= 1}

set_dn_Shared(dns, c, d) == [k \in DOMAIN dns |-> d]

\* the assignment to self.dn, self being the handler of connection c
set_dn(dns, c, d) == [dns EXCEPT ![c] = d]

\* every handler is constructed with the same configuration
conn_self(dns, c) ==
    [dn |-> dns[c], base_dn |-> base_dn, base_dn_str |-> base_dn_str]

ConnsInit ==
    /\ pc = "idle"
    /\ HandlerAtRest
    /\ FnIdle
    /\ conn_dn = [c \in Conns |-> UNAUTHENTICATED]
    /\ solo_dn = [c \in Conns |-> UNAUTHENTICATED]
    /\ solo_ret = None
    /\ active = 0

\* connection c's handler handles op; so does the lone handler of c
ConnHandle(c, op, b) ==
    \E h \in {handle_ldap_message(conn_self(conn_dn, c), op, b)},
       s \in {handle_ldap_message(conn_self(solo_dn, c), op, b)} :
        /\ pc' = "responded"
        /\ active' = c
        /\ conn_dn' = set_dn(conn_dn, c, h.dn)
        /\ ret' = h.ret
        /\ calls' = h.calls
        /\ solo_dn' = [solo_dn EXCEPT ![c] = s.dn]
        /\ solo_ret' = s.ret
        /\ server_op' = op
        /\ backend' = b
        /\ UNCHANGED <<dn, base_dn, base_dn_str, config, last_ok_bind,
                       other_run, variants, fnVars>>

ConnBind ==
    /\ pc = "idle"
    /\ \E c \in Conns, sbr \in SimpleBindRequests, b \in BindResults :
           ConnHandle(c, [kind |-> "SimpleBind", req |-> sbr], b)

ConnSearch ==
    /\ pc = "idle"
    /\ \E c \in Conns, lsr \in ConnSearchRequests, b \in ListUsersResults :
           ConnHandle(c, [kind |-> "Search", req |-> lsr], b)

ConnWhoami ==
    /\ pc = "idle"
    /\ \E c \in Conns, wr \in WhoamiRequests :
           ConnHandle(c, [kind |-> "Whoami", req |-> wr], NoBackend)

ConnUnbind ==
    /\ pc = "idle"
    /\ \E c \in Conns : ConnHandle(c, [kind |-> "Unbind"], NoBackend)

ConnRespond ==
    /\ pc = "responded"
    /\ pc' = "idle"
    /\ active' = 0
    /\ server_op' = NoOp
    /\ backend' = NoBackend
    /\ ret' = None
    /\ solo_ret' = None
    /\ calls' = <<>>
    /\ UNCHANGED <<dn, base_dn, base_dn_str, config, last_ok_bind, other_run,
                   variants, fnVars, conn_dn, solo_dn>>

ConnsNext == ConnBind \/ ConnSearch \/ ConnWhoami \/ ConnUnbind \/ ConnRespond

SpecConns == ConnsInit /\ [][ConnsNext]_vars

\* C16: an operation handled on one connection leaves self.dn of every
\* other connection as it was, and returns what the connection's handler
\* would have returned had only that connection's operations been handled.
C16_ConnectionsIndependent ==
    [][(pc = "idle" /\ pc' = "responded") =>
           /\ \A c \in Conns \ {active'} : conn_dn'[c] = conn_dn[c]
           /\ ret' = solo_ret'
           /\ conn_dn' = solo_dn']_vars

\* whoami on a connection bound under one name while another connection is
\* bound under another name
C16_Witness ==
    /\ Responded("Whoami") /\ active = 2
    /\ conn_dn[1] # conn_dn[2]
    /\ conn_dn[1] # UNAUTHENTICATED /\ conn_dn[2] # UNAUTHENTICATED
    /\ ret = Some(<<wr_gen_success(server_op.req, DN_PREFIX \o conn_dn[2])>>)

(* ------------------------- construction -------------------------------- *)
\* configuration texts: those that parse and some that do not (empty, no
\* '=', two '=', empty last component)
NewTexts == ConfigBaseDns \cup {<<>>, <<"d", "c">>, <<"d", "c", "=", "a", "=", "b">>, <<"d", "c", "=", "c", "o", "m", ",">>}

LdapHandler_new_DefaultsOnError(ldap_base_dn) ==
    [panic |-> FALSE,
     dn |-> UNAUTHENTICATED,
     base_dn |-> parse_distinguished_name(ldap_base_dn).val,
     base_dn_str |-> ldap_base_dn]

\* LdapHandler::new: the handler, or the panic of unwrap_or_else
LdapHandler_new(ldap_base_dn) ==
    IF parse_distinguished_name(ldap_base_dn).ok
    THEN [panic |-> FALSE,
          dn |-> UNAUTHENTICATED,
          base_dn |-> parse_distinguished_name(ldap_base_dn).val,
          base_dn_str |-> ldap_base_dn]
    ELSE [panic |-> TRUE, dn |-> <<>>, base_dn |-> <<>>, base_dn_str |-> <<>>]

\* before construction there is no handler
NewInit ==
    /\ pc = "new"
    /\ config \in NewTexts
    /\ dn = <<>>
    /\ base_dn = <<>>
    /\ base_dn_str = <<>>
    /\ server_op = NoOp
    /\ backend = NoBackend
    /\ ret = None
    /\ calls = <<>>
    /\ last_ok_bind = None
    /\ other_run = NoRun
    /\ variants = NoVariants
    /\ FnIdle
    /\ ConnsIdle

Construct ==
    /\ pc = "new"
    /\ \E h \in {LdapHandler_new(config)} :
           /\ pc' = IF h.panic THEN "panicked" ELSE "idle"
           /\ dn' = h.dn
           /\ base_dn' = h.base_dn
           /\ base_dn_str' = h.base_dn_str
    /\ UNCHANGED <<config, server_op, backend, ret, calls, last_ok_bind,
                   other_run, variants, fnVars, connVars>>

NewNext == Construct \/ SimpleBind \/ Search \/ Whoami \/ Unbind \/ Respond

SpecNew == NewInit /\ [][NewNext]_vars

\* C17: construction with a text that does not parse is fatal, and nothing
\* is handled afterwards; with a text that parses the handler holds the
\* parsed DN and the text itself; no operation changes either; and an
\* operations error returned for a search is about the request's own base.
C17_ConfiguredBaseFixed ==
    [][/\ pc = "new" =>
              IF parse_distinguished_name(config).ok
              THEN /\ pc' = "idle"
                   /\ base_dn' = parse_distinguished_name(config).val
                   /\ base_dn_str' = config
              ELSE pc' = "panicked" /\ server_op' = NoOp /\ ret' = None
       /\ pc # "panicked"
       /\ pc # "new" => base_dn' = base_dn /\ base_dn_str' = base_dn_str
       /\ (pc' = "responded" /\ server_op'.kind = "Search") =>
              \A i \in 1..Len(ret'.val) :
                  ret'.val[i].code = "OperationsError" =>
                      /\ ~parse_distinguished_name(server_op'.req.base).ok
                      /\ ret'.val[i].message =
                             COULD_NOT_PARSE \o server_op'.req.base \o QUOTE]_vars

\* construction with a non-empty text that does not parse ended in the panic
C17_Witness ==
    /\ pc = "panicked"
    /\ config # <<>> /\ ~parse_distinguished_name(config).ok
    /\ server_op = NoOp

\* the number of error responses among the messages returned
ErrorCount ==
    Cardinality({i \in 1..Len(ret.val) : ret.val[i].code \notin {"Success", ""}})

\* C18: a bind makes one backend bind call and nothing else; a search makes
\* one list_users call when its base parses and is in scope, and no call
\* otherwise; whoami and unbind make no call; and a failure gives exactly
\* one error response.
C18_BackendCalls ==
    pc = "responded" =>
        /\ server_op.kind = "SimpleBind" =>
               /\ calls = <<"bind">>
               /\ ErrorCount = (IF backend.ok THEN 0 ELSE 1)
        /\ server_op.kind = "Search" =>
               /\ calls = (IF InScope(server_op.req) THEN <<"list_users">> ELSE <<>>)
               /\ ErrorCount <= 1
               /\ ~parse_distinguished_name(server_op.req.base).ok => ErrorCount = 1
               /\ (InScope(server_op.req) /\ ~backend.ok) => ErrorCount = 1
               /\ ErrorCount = 1 => Len(ret.val) = 1
        /\ server_op.kind \in {"Whoami", "Unbind"} =>
               /\ calls = <<>>
               /\ ErrorCount <= 1

\* a bind the backend rejected: one call, one error response
C18_Witness ==
    /\ Responded("SimpleBind") /\ ~backend.ok
    /\ calls = <<"bind">>
    /\ ErrorCount = 1

\* C20 as claimed: every result entry of a search whose base lies within
\* the configured base DN has a DN within the request's base.  Entries
\* whose DN text does not parse (C14) are left aside, so that a violation
\* is an entry with a well-formed DN outside the request's base.
C20_Original ==
    (Responded("Search") /\ InScope(server_op.req)) =>
        \A i \in 1..Len(ret.val) :
            (/\ ret.val[i].op = "SearchResultEntry"
             /\ parse_distinguished_name(ret.val[i].entry.dn).ok) =>
                   is_subtree(parse_distinguished_name(ret.val[i].entry.dn).val,
                              parse_distinguished_name(server_op.req.base).val)

\* C20 amended: result entries are returned only to a search whose base
\* lies within the configured base DN, and the DN of the entry of a user is
\* "cn=" + user id + "," + configured base-DN text whatever the request's
\* base is.
C20_EntriesNamedUnderConfiguredBase ==
    Responded("Search") =>
        \A i \in 1..Len(ret.val) :
            ret.val[i].op = "SearchResultEntry" =>
                /\ InScope(server_op.req)
                /\ backend.ok /\ i <= Len(backend.val)
                /\ ret.val[i].entry.dn =
                       CN_EQ \o backend.val[i].user_id \o COMMA \o base_dn_str

\* a search below the configured base got an entry that is not below the
\* search base
C20_Witness ==
    /\ Responded("Search") /\ InScope(server_op.req)
    /\ Len(parse_distinguished_name(server_op.req.base).val) > Len(base_dn)
    /\ Len(ret.val) = 3
    /\ ret.val[1].op = "SearchResultEntry"
    /\ parse_distinguished_name(ret.val[1].entry.dn).ok
    /\ ~is_subtree(parse_distinguished_name(ret.val[1].entry.dn).val,
                   parse_distinguished_name(server_op.req.base).val)
====
